---- MODULE Spec2Model ----
(***************************************************************************)
(* Model of src/main.c: bridges between islands are tagged with a colour   *)
(* bit (main), radix-sorted by tagged cost (radix_sort_increasing) and     *)
(* consumed from the highest key to the lowest by a greedy spanning-forest *)
(* loop over a union-find array (solve).                                   *)
(***************************************************************************)
EXTENDS Integers, Sequences, FiniteSets, TLC

\* ------------------------------------------------------------ constants
BRIDGE_MASK_COST == 16383
BRIDGE_MARK_RED == 16384
RADIX_BITS == 8
RADIX_LEVELS == 2
RADIX_SIZE == 256
RADIX_MASK == RADIX_SIZE - 1
COST_MIN == 1
COST_MAX == 10000

\* ------------------------------------------------------------ bounds
\* General inputs: up to MaxN islands and MaxM bridges with any endpoints.
MaxN == 2
MaxM == 1
\* Uniform inputs (one cost, one colour): up to MaxIslands islands and
\* MaxBridges bridges.
MaxIslands == 3
MaxBridges == 3
\* Parallel inputs: up to MaxParallel bridges between the same two islands.
MaxParallel == 2

VARIABLES pc, layout, n, m, records, bridges, buffer, fromIsBridges, level,
          frequencies, indices, maxIndex, uf, i, fr, tr, result, accepted, visited

vars == <<pc, layout, n, m, records, bridges, buffer, fromIsBridges, level,
          frequencies, indices, maxIndex, uf, i, fr, tr, result, accepted, visited>>

\* ------------------------------------------------------------ helpers
Max(a, b) == IF a >= b THEN a ELSE b
MaxOf(S) == CHOOSE x \in S : \A y \in S : y <= x

\* ------------------------------------------------------------ bit operations
\* x >> k on a non-negative integer.
ShiftRight(x, k) == x \div (2 ^ k)

\* x & RADIX_MASK: the low RADIX_BITS bits.
LowByte(x) == x % RADIX_SIZE

\* (cost & BRIDGE_MARK_RED) == BRIDGE_MARK_RED: bit 14 of the stored cost.
IsRed(cost) == (cost \div BRIDGE_MARK_RED) % 2 = 1

\* A faulty variant of MarkRed: the mark is not set.
MarkRed_Forgotten(cost) == cost

\* A faulty variant of MarkRed: the mark is bit 13, inside the range of the costs.
MarkRed_LowBit(cost) ==
  IF (cost \div (2 ^ 13)) % 2 = 1 THEN cost ELSE cost + 2 ^ 13

\* cost | BRIDGE_MARK_RED
MarkRed(cost) == IF IsRed(cost) THEN cost ELSE cost + BRIDGE_MARK_RED

\* cost & BRIDGE_MASK_COST
MaskCost(cost) == cost % (BRIDGE_MASK_COST + 1)

\* ------------------------------------------------------------ union-find
\* uf_find: item is a local copy of items[u]; the loop follows parent links
\* in the local copy only and returns the root. Nothing is stored to items.
RECURSIVE FindLoop(_, _, _)
FindLoop(items, u, parent) ==
  IF parent # u /\ items[parent].parent # parent
  THEN FindLoop(items, u, items[parent].parent)
  ELSE parent

\* A faulty variant of uf_find: the parent of u is returned without following the chain.
uf_find_OneHop(items, u) == items[u].parent

uf_find(items, u) == FindLoop(items, u, items[u].parent)

\* A faulty variant of uf_union_r: the second branch links vr to itself.
uf_union_r_SelfLink(items, ur, vr) ==
  IF items[ur].rank < items[vr].rank
  THEN [items EXCEPT ![ur].parent = vr]
  ELSE IF items[ur].rank = items[vr].rank
       THEN [items EXCEPT ![vr].parent = vr, ![ur].rank = @ + 1]
       ELSE [items EXCEPT ![vr].parent = vr]

\* A faulty variant of uf_union_r: no link is made when ur has the higher rank.
uf_union_r_NoLinkWhenHigher(items, ur, vr) ==
  IF items[ur].rank < items[vr].rank
  THEN [items EXCEPT ![ur].parent = vr]
  ELSE IF items[ur].rank = items[vr].rank
       THEN [items EXCEPT ![vr].parent = ur, ![ur].rank = @ + 1]
       ELSE items

\* uf_union_r: link by rank.
uf_union_r(items, ur, vr) ==
  IF items[ur].rank < items[vr].rank
  THEN [items EXCEPT ![ur].parent = vr]
  ELSE IF items[ur].rank = items[vr].rank
       THEN [items EXCEPT ![vr].parent = ur, ![ur].rank = @ + 1]
       ELSE [items EXCEPT ![vr].parent = ur]

\* ------------------------------------------------------------ radix sort
\* A faulty variant of Digit: the shift by l * RADIX_BITS is dropped.
Digit_NoShift(cost, l) == LowByte(cost)

\* The digit of a (tagged) cost used at level l.
Digit(cost, l) == LowByte(ShiftRight(cost, l * RADIX_BITS))

ZeroFrequencies == [l \in 0..(RADIX_LEVELS - 1) |-> [d \in 0..(RADIX_SIZE - 1) |-> 0]]
ZeroIndices == [l \in 0..(RADIX_LEVELS - 1) |-> 0]

\* radix_compute_frequencies: one increment per bridge and level.
RECURSIVE FrequenciesOfBridge(_, _, _)
FrequenciesOfBridge(freq, cost, l) ==
  IF l < RADIX_LEVELS
  THEN FrequenciesOfBridge([freq EXCEPT ![l][LowByte(cost)] = @ + 1],
                           ShiftRight(cost, RADIX_BITS), l + 1)
  ELSE freq

RECURSIVE radix_compute_frequencies(_, _, _)
radix_compute_frequencies(k, bs, freq) ==
  IF k <= Len(bs)
  THEN radix_compute_frequencies(k + 1, bs, FrequenciesOfBridge(freq, bs[k].cost, 0))
  ELSE freq

\* The indices array is declared with RADIX_LEVELS elements. An access at
\* index j >= RADIX_LEVELS is outside the array; under the "adjacent" layout
\* (frequencies placed right after indices in the frame) it lands on
\* frequencies[0][j - RADIX_LEVELS].
IndicesLoad(mem, j) ==
  IF j < RADIX_LEVELS THEN mem.indices[j] ELSE mem.frequencies[0][j - RADIX_LEVELS]

IndicesStore(mem, j, v) ==
  IF j < RADIX_LEVELS
  THEN [mem EXCEPT !.indices[j] = v]
  ELSE [mem EXCEPT !.frequencies[0][j - RADIX_LEVELS] = v]

\* One iteration of the loop of radix_compute_indices (lines 109-111):
\* indices[i] = index; index += frequencies[level][i]; i++.
IndicesStep(st, lvl) ==
  LET stored == IndicesStore(st.mem, st.i, st.index)
  IN [mem |-> stored, index |-> st.index + stored.frequencies[lvl][st.i], i |-> st.i + 1]

\* Up to k iterations of that loop from the loop state st, stopping when
\* i < RADIX_SIZE fails (k is split in halves to keep the evaluation shallow;
\* the steps run in the loop's order).
RECURSIVE IndicesLoop(_, _, _)
IndicesLoop(st, lvl, k) ==
  IF k = 0 \/ st.i >= RADIX_SIZE THEN st
  ELSE IF k = 1 THEN IndicesStep(st, lvl)
  ELSE LET half == IndicesLoop(st, lvl, k \div 2)
       IN IF half.i < RADIX_SIZE THEN IndicesLoop(half, lvl, k - (k \div 2)) ELSE half

\* radix_compute_indices: index = 0, i = 0, then the loop to its end.
radix_compute_indices(lvl, mem) ==
  IndicesLoop([mem |-> mem, index |-> 0, i |-> 0], lvl, RADIX_SIZE).mem

\* The redistribution loop of one pass: to[indices[queue]++] = from[k].
RECURSIVE PassLoop(_, _, _, _, _)
PassLoop(mem, src, dst, lvl, k) ==
  IF k <= Len(src)
  THEN LET queue == Digit(src[k].cost, lvl)
           at == IndicesLoad(mem, queue)
       IN PassLoop(IndicesStore(mem, queue, at + 1), src,
                   [dst EXCEPT ![at + 1] = src[k]], lvl, k + 1)
  ELSE [mem |-> mem, dst |-> dst]

\* ------------------------------------------------------------ inputs
\* scan_char accepts 'a'..'z'; 'r' is the red company, any other letter blue.
Companies == {"r", "b"}
\* The domain's costs are COST_MIN..COST_MAX: the two lowest and the highest
\* (whose two radix digits are both non-zero).
Costs == {COST_MIN, COST_MIN + 1, COST_MAX}

RECURSIVE SeqsOfLen(_, _)
SeqsOfLen(S, k) ==
  IF k = 0 THEN {<<>>}
  ELSE {Append(s, x) : s \in SeqsOfLen(S, k - 1), x \in S}

SeqsUpTo(S, k) == UNION {SeqsOfLen(S, j) : j \in 0..k}

\* Input records as main scans them: 1-based endpoints, cost, company.
RecordsOf(nn) ==
  [from : 1..nn, to : 1..nn, cost : Costs, company : Companies]

GeneralInputs ==
  UNION {{[n |-> nn, records |-> rs] : rs \in SeqsUpTo(RecordsOf(nn), MaxM)} :
           nn \in 1..MaxN}

\* Every bridge with the same cost and colour, between distinct islands.
UniformRecordsOf(nn, c) ==
  {r \in [from : 1..nn, to : 1..nn, cost : {COST_MAX}, company : {c}] : r.from < r.to}

UniformInputs ==
  UNION {{[n |-> nn, records |-> rs] : rs \in SeqsUpTo(UniformRecordsOf(nn, c), MaxBridges)} :
           nn \in 1..MaxIslands, c \in Companies}

\* Two islands joined by parallel bridges of any cost and colour.
ParallelInputs ==
  {[n |-> 2, records |-> rs] :
     rs \in SeqsUpTo([from : {1}, to : {2}, cost : Costs, company : Companies], MaxParallel)}

\* The scenario of the specification's section 8.
ScenarioRecords ==
  << [from |-> 1, to |-> 2, cost |-> 5, company |-> "r"],
     [from |-> 2, to |-> 3, cost |-> 3, company |-> "b"],
     [from |-> 3, to |-> 4, cost |-> 8, company |-> "r"],
     [from |-> 1, to |-> 4, cost |-> 1, company |-> "b"] >>

Scenario == [n |-> 4, records |-> ScenarioRecords]

\* Where a store to indices[j], j >= RADIX_LEVELS, lands. The array is
\* declared with RADIX_LEVELS elements (line 125), so the store is undefined
\* behaviour and its outcome depends on the build:
\*   "adjacent": frequencies follows indices in the frame, and the store
\*               lands on frequencies[0][j - RADIX_LEVELS];
\*   "guarded":  the store is caught (or hits control data) and the process
\*               ends abnormally.
Layouts == {"adjacent", "guarded"}

\* The content of the scratch buffer before it is written.
Poison == [from |-> -1, to |-> -1, cost |-> -1, id |-> 0]

InitOf(inputs) ==
  /\ pc = "main"
  /\ layout \in Layouts
  /\ \E inp \in inputs :
       /\ n = inp.n
       /\ m = Len(inp.records)
       /\ records = inp.records
  /\ bridges = <<>>
  /\ buffer = <<>>
  /\ fromIsBridges = TRUE
  /\ level = 0
  /\ frequencies = <<>>
  /\ indices = <<>>
  /\ maxIndex = -1
  /\ uf = <<>>
  /\ i = 0
  /\ fr = -1
  /\ tr = -1
  /\ result = [red |-> 0, blue |-> 0]
  /\ accepted = <<>>
  /\ visited = <<>>

Inputs == GeneralInputs \cup UniformInputs \cup ParallelInputs \cup {Scenario}

Init == InitOf(Inputs)

\* ------------------------------------------------------------ main
\* main, lines 259-269: shift the endpoints to 0-based and fold the colour
\* bit into the cost of a red bridge.
\* id is the record's position in the input; it is carried with the bridge
\* so that statements can name the input record a bridge came from.
TagRecord(r, k) ==
  [from |-> r.from - 1, to |-> r.to - 1,
   cost |-> IF r.company = "r" THEN MarkRed(r.cost) ELSE r.cost,
   id |-> k]

MainReadBridges ==
  /\ pc = "main"
  /\ bridges' = [k \in 1..m |-> TagRecord(records[k], k)]
  /\ pc' = "solve"
  /\ UNCHANGED <<layout, n, m, records, buffer, fromIsBridges, level, frequencies,
                 indices, maxIndex, uf, i, fr, tr, result, accepted, visited>>

\* ------------------------------------------------------------ solve
\* solve, lines 158-165: fresh union-find array, then the call of the sort.
SolveEnter ==
  /\ pc = "solve"
  /\ uf' = [k \in 0..(n - 1) |-> [parent |-> k, rank |-> 0]]
  /\ pc' = "sort"
  /\ UNCHANGED <<layout, n, m, records, bridges, buffer, fromIsBridges, level,
                 frequencies, indices, maxIndex, i, fr, tr, result, accepted, visited>>

\* radix_sort_increasing, lines 123-131: early return for m = 0, else the
\* locals and the frequency table.
RadixEnter ==
  /\ pc = "sort"
  /\ IF m = 0
     THEN /\ pc' = "loop_init"
          /\ UNCHANGED <<buffer, fromIsBridges, level, frequencies, indices>>
     ELSE /\ pc' = "indices"
          /\ buffer' = [k \in 1..m |-> Poison]
          /\ fromIsBridges' = TRUE
          /\ level' = 0
          /\ frequencies' = radix_compute_frequencies(1, bridges, ZeroFrequencies)
          /\ indices' = ZeroIndices
  /\ UNCHANGED <<layout, n, m, records, bridges, maxIndex, uf, i, fr, tr, result,
                 accepted, visited>>

\* radix_sort_increasing, line 133: radix_compute_indices stores indices[i]
\* for every i < RADIX_SIZE. Under the "guarded" layout the first store past
\* the end of the array ends the process.
RadixComputeIndices ==
  /\ pc = "indices"
  /\ level < RADIX_LEVELS
  /\ IF layout = "guarded" /\ RADIX_SIZE > RADIX_LEVELS
     THEN /\ pc' = "aborted"
          /\ maxIndex' = Max(maxIndex, RADIX_LEVELS)
          /\ UNCHANGED <<frequencies, indices>>
     ELSE LET mem == radix_compute_indices(level,
                       [indices |-> indices, frequencies |-> frequencies])
          IN /\ pc' = "pass"
             /\ maxIndex' = Max(maxIndex, RADIX_SIZE - 1)
             /\ frequencies' = mem.frequencies
             /\ indices' = mem.indices
  /\ UNCHANGED <<layout, n, m, records, bridges, buffer, fromIsBridges, level, uf,
                 i, fr, tr, result, accepted, visited>>

\* radix_sort_increasing, lines 134-142: one redistribution pass, then the
\* swap of from and to.
RadixPass ==
  /\ pc = "pass"
  /\ LET src == IF fromIsBridges THEN bridges ELSE buffer
         dst == IF fromIsBridges THEN buffer ELSE bridges
         out == PassLoop([indices |-> indices, frequencies |-> frequencies],
                         src, dst, level, 1)
     IN /\ IF fromIsBridges
           THEN buffer' = out.dst /\ UNCHANGED bridges
           ELSE bridges' = out.dst /\ UNCHANGED buffer
        /\ frequencies' = out.mem.frequencies
        /\ indices' = out.mem.indices
        /\ maxIndex' = MaxOf({maxIndex} \cup {Digit(src[k].cost, level) : k \in 1..m})
  /\ fromIsBridges' = ~fromIsBridges
  /\ level' = level + 1
  /\ pc' = IF level + 1 < RADIX_LEVELS THEN "indices" ELSE "sort_return"
  /\ UNCHANGED <<layout, n, m, records, uf, i, fr, tr, result, accepted, visited>>

\* radix_sort_increasing, line 145: if (bridges == to) memcpy(from, to, ...).
\* After the loop, to is the caller's array exactly when from is the buffer;
\* memcpy's destination is its first argument.
RadixReturn ==
  /\ pc = "sort_return"
  /\ IF ~fromIsBridges
     THEN buffer' = bridges
     ELSE UNCHANGED buffer
  /\ pc' = "loop_init"
  /\ frequencies' = <<>>
  /\ indices' = <<>>
  /\ UNCHANGED <<layout, n, m, records, bridges, fromIsBridges, level, maxIndex, uf,
                 i, fr, tr, result, accepted, visited>>

\* solve, lines 168-172: zero totals, i = m - 1.
LoopInit ==
  /\ pc = "loop_init"
  /\ result' = [red |-> 0, blue |-> 0]
  /\ i' = m - 1
  /\ pc' = "loop"
  /\ UNCHANGED <<layout, n, m, records, bridges, buffer, fromIsBridges, level,
                 frequencies, indices, maxIndex, uf, fr, tr, accepted, visited>>

\* solve, lines 173-174: bridge = bridges[i]; fr = uf_find(uf, bridge.from).
FindFrom ==
  /\ pc = "loop"
  /\ i >= 0
  /\ fr' = uf_find(uf, bridges[i + 1].from)
  /\ visited' = Append(visited, bridges[i + 1])
  /\ pc' = "find_to"
  /\ UNCHANGED <<layout, n, m, records, bridges, buffer, fromIsBridges, level,
                 frequencies, indices, maxIndex, uf, i, tr, result, accepted>>

\* solve, line 175: tr = uf_find(uf, bridge.to).
FindTo ==
  /\ pc = "find_to"
  /\ tr' = uf_find(uf, bridges[i + 1].to)
  /\ pc' = "decide"
  /\ UNCHANGED <<layout, n, m, records, bridges, buffer, fromIsBridges, level,
                 frequencies, indices, maxIndex, uf, i, fr, result, accepted, visited>>

\* A faulty variant of AddCost: the red cost is added with its mark bit.
AddCost_NoMask(res, cost) ==
  IF IsRed(cost)
  THEN [res EXCEPT !.red = @ + cost]
  ELSE [res EXCEPT !.blue = @ + cost]

\* solve, lines 178-182: the total a bridge's cost is added to.
AddCost(res, cost) ==
  IF IsRed(cost)
  THEN [res EXCEPT !.red = @ + MaskCost(cost)]
  ELSE [res EXCEPT !.blue = @ + cost]

\* solve, lines 173-183: one iteration of the greedy loop on the loop state
\* st = [uf, result, accepted] and the bridge b.
GreedyStep(st, b) ==
  LET from_r == uf_find(st.uf, b.from)
      to_r == uf_find(st.uf, b.to)
  IN IF from_r # to_r
     THEN [uf |-> uf_union_r(st.uf, from_r, to_r),
           result |-> AddCost(st.result, b.cost),
           accepted |-> Append(st.accepted, b)]
     ELSE st

\* solve, lines 158-186, on a sequence of bridges given in the order the loop
\* visits them: fresh union-find array, zero totals, one GreedyStep each.
RECURSIVE GreedyFrom(_, _, _)
GreedyFrom(st, seq, k) ==
  IF k > Len(seq) THEN st ELSE GreedyFrom(GreedyStep(st, seq[k]), seq, k + 1)

GreedyTotals(nn, seq) ==
  GreedyFrom([uf |-> [k \in 0..(nn - 1) |-> [parent |-> k, rank |-> 0]],
              result |-> [red |-> 0, blue |-> 0],
              accepted |-> <<>>], seq, 1)

\* solve, lines 176-183, fr != tr: union and accumulate.
Accept ==
  /\ pc = "decide"
  /\ fr # tr
  /\ uf' = uf_union_r(uf, fr, tr)
  /\ result' = AddCost(result, bridges[i + 1].cost)
  /\ accepted' = Append(accepted, bridges[i + 1])
  /\ i' = i - 1
  /\ pc' = "loop"
  /\ UNCHANGED <<layout, n, m, records, bridges, buffer, fromIsBridges, level,
                 frequencies, indices, maxIndex, fr, tr, visited>>

\* solve, line 176, fr == tr: the bridge is skipped.
Discard ==
  /\ pc = "decide"
  /\ fr = tr
  /\ i' = i - 1
  /\ pc' = "loop"
  /\ UNCHANGED <<layout, n, m, records, bridges, buffer, fromIsBridges, level,
                 frequencies, indices, maxIndex, uf, fr, tr, result, accepted, visited>>

\* solve, lines 172 and 186: the loop ends and the result is returned.
SolveReturn ==
  /\ pc = "loop"
  /\ i < 0
  /\ pc' = "done"
  /\ UNCHANGED <<layout, n, m, records, bridges, buffer, fromIsBridges, level,
                 frequencies, indices, maxIndex, uf, i, fr, tr, result, accepted, visited>>

Next ==
  \/ MainReadBridges
  \/ SolveEnter
  \/ RadixEnter
  \/ RadixComputeIndices
  \/ RadixPass
  \/ RadixReturn
  \/ LoopInit
  \/ FindFrom
  \/ FindTo
  \/ Accept
  \/ Discard
  \/ SolveReturn

Spec == Init /\ [][Next]_vars

\* ------------------------------------------------------------ statements
\* The root of u: the node reached by following parent links to a self-parent.
RECURSIVE Root(_, _)
Root(items, u) == IF items[u].parent = u THEN u ELSE Root(items, items[u].parent)

\* Path halving as the specification describes it: every node visited on the
\* way from u to its root is relinked to its grandparent.
RECURSIVE PathHalving(_, _)
PathHalving(items, u) ==
  IF items[u].parent = u THEN items
  ELSE LET g == items[items[u].parent].parent
       IN PathHalving([items EXCEPT ![u].parent = g], g)

\* The states of the greedy loop of solve and its return.
InLoop == pc \in {"loop", "find_to", "decide", "done"}

\* The islands.
Islands == 0..(n - 1)

\* The islands reachable from the set S over the (undirected) edges.
RECURSIVE Closure(_, _)
Closure(edges, S) ==
  LET T == S \cup {e.to : e \in {x \in edges : x.from \in S}}
             \cup {e.from : e \in {x \in edges : x.to \in S}}
  IN IF T = S THEN S ELSE Closure(edges, T)

Connected(edges, u, v) == v \in Closure(edges, {u})

Range(seq) == {seq[k] : k \in 1..Len(seq)}

\* The array main hands to solve: the input records, shifted and tagged.
TaggedInput == [k \in 1..m |-> TagRecord(records[k], k)]

\* The input cost and colour of the record a bridge came from.
InputCost(b) == records[b.id].cost
InputRed(b) == records[b.id].company = "r"
HasMarkBit(b) == (b.cost \div (2 ^ 14)) % 2 = 1

\* The sum of the input costs of a set of bridges.
RECURSIVE SumInputCosts(_)
SumInputCosts(S) ==
  IF S = {} THEN 0
  ELSE LET b == CHOOSE x \in S : TRUE IN InputCost(b) + SumInputCosts(S \ {b})

\* C9: every index at which radix_compute_indices and the redistribution
\* loop access the indices table lies within the array as declared
\* (RADIX_LEVELS elements).
C9_IndicesAccessInBounds == maxIndex < RADIX_LEVELS

\* C6: for every well-formed input solve terminates and returns a result:
\* the run never ends abnormally before solve's return.
C6_SolveReturnsResult == pc # "aborted"

\* C7: uf_find relinks every node on the search path from u to its former
\* grandparent in the items array, and returns the root of u.
C7_FindCompressesPath ==
  [][/\ (pc = "loop" /\ pc' = "find_to") =>
          (fr' = Root(uf, bridges[i + 1].from) /\ uf' = PathHalving(uf, bridges[i + 1].from))
     /\ (pc = "find_to" /\ pc' = "decide") =>
          (tr' = Root(uf, bridges[i + 1].to) /\ uf' = PathHalving(uf, bridges[i + 1].to))]_vars

\* C4: when radix_sort_increasing returns, the caller's array holds a
\* permutation of its input records (from, to, cost kept together) in
\* non-decreasing order of tagged cost, and the walk of solve visits the
\* bridges from highest tagged cost to lowest.
C4_RadixSortsCallerArray ==
  /\ pc = "loop_init" =>
       /\ Len(bridges) = m
       /\ Range(bridges) = Range(TaggedInput)
       /\ \A k \in 1..(m - 1) : bridges[k].cost <= bridges[k + 1].cost
  /\ InLoop =>
       /\ \A a, b \in 1..Len(visited) : a < b => visited[a].cost >= visited[b].cost
       /\ (pc = "done" => Len(visited) = m /\ Range(visited) = Range(TaggedInput))

C4_Witness ==
  /\ pc = "done"
  /\ m >= 2
  /\ bridges # TaggedInput
  /\ \E k \in 1..(m - 1) :
       /\ bridges[k].cost < bridges[k + 1].cost
       /\ LowByte(bridges[k].cost) > LowByte(bridges[k + 1].cost)

\* C3: in the greedy loop and at its end, two islands have the same
\* representative exactly when a path of accepted bridges connects them.
C3_ClassesAreAcceptedComponents ==
  InLoop =>
    \A u, v \in Islands :
      (uf_find(uf, u) = uf_find(uf, v)) <=> Connected(Range(accepted), u, v)

C3_Witness ==
  /\ pc = "done"
  /\ Len(accepted) >= 1
  /\ \E u, v \in Islands : uf_find(uf, u) # uf_find(uf, v)
  /\ \E u, v \in Islands : u # v /\ uf_find(uf, u) = uf_find(uf, v)

\* C8: at most n - 1 bridges are ever accepted, and once n - 1 are accepted
\* every step of the loop leaves the union-find array, the totals and the
\* accepted bridges unchanged (each remaining bridge finds equal
\* representatives).
C8_ScanPastSpanningForestIsHarmless ==
  /\ [](InLoop => Len(accepted) <= n - 1)
  /\ []((pc = "decide" /\ Len(accepted) = n - 1) => fr = tr)
  /\ [][(InLoop /\ Len(accepted) = n - 1) =>
          (uf' = uf /\ result' = result /\ accepted' = accepted)]_vars

C8_Witness ==
  /\ pc = "decide"
  /\ n >= 3
  /\ Len(accepted) = n - 1
  /\ fr = tr
  /\ bridges[i + 1].from # bridges[i + 1].to

\* C2: red_total is the sum of the tag-free costs of exactly the accepted
\* bridges with the mark bit (the red input records), blue_total the sum of
\* the costs of exactly the accepted bridges without it; the mark bit adds
\* to neither. The scenario of section 8 gives 13 and 3.
C2_TotalsAreTagFreeSumsByColour ==
  InLoop =>
    /\ \A b \in Range(accepted) :
         /\ HasMarkBit(b) <=> InputRed(b)
         /\ b.cost % (2 ^ 14) = InputCost(b)
    /\ result.red = SumInputCosts({b \in Range(accepted) : HasMarkBit(b)})
    /\ result.blue = SumInputCosts({b \in Range(accepted) : ~HasMarkBit(b)})
    /\ (pc = "done" /\ n = 4 /\ records = ScenarioRecords) =>
         (result.red = 13 /\ result.blue = 3)

C2_Witness ==
  /\ pc = "done"
  /\ n = 4
  /\ records = ScenarioRecords
  /\ result = [red |-> 13, blue |-> 3]

\* ---- references over the input records
\* The edges (0-based endpoints) of the input records with positions in S.
RecordEdges(S) == {[from |-> records[k].from - 1, to |-> records[k].to - 1] : k \in S}

Components(edges) == {Closure(edges, {u}) : u \in Islands}

\* S is a spanning forest of the graph of the records All: acyclic, with the
\* components of All.
IsSpanningForest(S, All) ==
  /\ Cardinality(S) = n - Cardinality(Components(RecordEdges(S)))
  /\ Components(RecordEdges(S)) = Components(RecordEdges(All))

SpanningForests(All) == {S \in SUBSET All : IsSpanningForest(S, All)}

RECURSIVE PlainWeight(_)
PlainWeight(S) ==
  IF S = {} THEN 0
  ELSE LET k == CHOOSE x \in S : TRUE IN records[k].cost + PlainWeight(S \ {k})

\* The weight under the tagged key: the cost plus 2^14 for a red record.
RECURSIVE TaggedWeight(_)
TaggedWeight(S) ==
  IF S = {} THEN 0
  ELSE LET k == CHOOSE x \in S : TRUE
       IN records[k].cost + (IF records[k].company = "r" THEN 2 ^ 14 ELSE 0)
            + TaggedWeight(S \ {k})

\* The weight of a maximum spanning forest, the cost being the sole key.
MaxPlainWeight(All) == MaxOf({PlainWeight(S) : S \in SpanningForests(All)})

MaxTaggedWeight(All) == MaxOf({TaggedWeight(S) : S \in SpanningForests(All)})

RedRecords == {k \in 1..m : records[k].company = "r"}

\* C1 as stated: red_total + blue_total is the weight of a maximum spanning
\* forest computed with the tag-free cost as the sole key, colour ignored.
C1_SumIsColourBlindMaxForest ==
  pc = "done" => result.red + result.blue = MaxPlainWeight(1..m)

\* C1 as amended: red_total + blue_total is the tag-free weight of the
\* maximum spanning forests computed with the tagged cost (the cost plus 2^14
\* for a red bridge) as the key; with one colour only it is the colour-blind
\* maximum spanning forest weight.
C1_SumIsTaggedMaxForest ==
  pc = "done" =>
    /\ \A S \in SpanningForests(1..m) :
         TaggedWeight(S) = MaxTaggedWeight(1..m) =>
           PlainWeight(S) = result.red + result.blue
    /\ (RedRecords = {} \/ RedRecords = 1..m) =>
         result.red + result.blue = MaxPlainWeight(1..m)

C1_Witness ==
  /\ pc = "done"
  /\ Len(accepted) < m
  /\ result.red > 0
  /\ result.red + result.blue < MaxPlainWeight(1..m)

\* C10: the loop examines every red bridge before any blue bridge; a blue
\* bridge is accepted only if red bridges do not already connect its
\* endpoints; the accepted red bridges are a maximum spanning forest of the
\* red-only subgraph.
C10_RedBeforeBlue ==
  InLoop =>
    /\ \A a, b \in 1..Len(visited) :
         (a < b /\ InputRed(visited[b])) => InputRed(visited[a])
    /\ \A b \in Range(accepted) :
         ~InputRed(b) => ~Connected(RecordEdges(RedRecords), b.from, b.to)
    /\ pc = "done" =>
         LET A == {b.id : b \in {x \in Range(accepted) : InputRed(x)}}
         IN /\ A \in SpanningForests(RedRecords)
            /\ PlainWeight(A) = MaxPlainWeight(RedRecords)
            /\ PlainWeight(A) = result.red

C10_Witness ==
  /\ pc = "done"
  /\ \E r \in Range(accepted), b \in Range(visited) \ Range(accepted) :
       /\ InputRed(r)
       /\ ~InputRed(b)
       /\ InputCost(b) > InputCost(r)

\* The orders in which a highest-to-lowest walk may visit the bridges: the
\* permutations of the tagged input with non-increasing tagged cost.
DescendingOrders ==
  {[k \in 1..m |-> TaggedInput[q[k]]] :
     q \in {r \in [1..m -> 1..m] :
              /\ \A a, b \in 1..m : a # b => r[a] # r[b]
              /\ \A a \in 1..(m - 1) :
                   TaggedInput[r[a]].cost >= TaggedInput[r[a + 1]].cost}}

\* C5: every highest-to-lowest order of the same bridges, fed to the
\* accumulator loop from a fresh disjoint-set, gives the totals solve returns.
C5_TotalsIndependentOfTieOrder ==
  pc = "done" => \A p \in DescendingOrders : GreedyTotals(n, p).result = result

C5_Witness ==
  /\ pc = "done"
  /\ \E p \in DescendingOrders :
       Range(GreedyTotals(n, p).accepted) # Range(accepted)

====
